---------------------------- MODULE Spec2Model ----------------------------
(***************************************************************************)
(* Model of the semantic retrieval engine of knowledge-keeper              *)
(* (backend/app/services/embedding.py, rag.py, ai_service.py, api/chat.py, *)
(* api/bookmarks.py and core/database.py): the JSON-persisted VectorStore, *)
(* the EmbeddingClient, the EmbeddingService built on them, retrieval, a   *)
(* RAG request in its batch and its streaming variant, the generation      *)
(* clients, the bookmark endpoints that index, and the chat transaction.   *)
(*                                                                         *)
(* The specifications share the variables:                                 *)
(*   Spec          the store API inside one running process;               *)
(*   SpecService   the service's indexing calls on top of the store;       *)
(*   SpecDisk      the store together with its index file: construction,   *)
(*                 failing writes, a crash in the middle of a write,       *)
(*                 restart;                                                *)
(*   SpecEmbed     one EmbeddingClient.embed call, one remote call per     *)
(*                 step;                                                   *)
(*   SpecRetrieve  RAGService.retrieve over a store the service fills;     *)
(*   SpecFallback  direct calls of the lexical scorer;                     *)
(*   SpecRag       one RAG request, step by step;                          *)
(*   SpecSources   one RAG request over documents that differ in title,    *)
(*                 url and length of content;                              *)
(*   SpecPrompt    one RAG request inside a conversation with earlier      *)
(*                 turns, on each client class;                            *)
(*   SpecProvider  construction of AIService and of the RAG singleton;     *)
(*   SpecBookmarks the bookmark endpoints, interleaved at the await of     *)
(*                 the embedding call;                                     *)
(*   SpecChat      batch chat requests and their database transaction.     *)
(*                                                                         *)
(* Arithmetic is exact: a relevance is a reduced fraction, where the code  *)
(* computes an IEEE double.  Vectors are drawn with integral norms so that *)
(* np.linalg.norm is an integer square root.                               *)
(***************************************************************************)
EXTENDS Integers, Sequences, FiniteSets, TLC

(***************************************************************************)
(* Bounds of the model.                                                    *)
(***************************************************************************)
NumIds == 2        \* number of distinct document ids in use
MaxLimit == 2      \* search limits n_results range over 0..MaxLimit
MaxTexts == 2      \* embed() is called with at most this many texts

IdNames == <<"d1", "d2", "d3", "d4">>
Ids == {IdNames[i] : i \in 1..NumIds}

(***************************************************************************)
(* Python values.  None and a dict are kept apart by a tag, a dict is the  *)
(* set of its <<key, value>> items, a list of floats is a sequence.        *)
(***************************************************************************)
None == [none |-> TRUE]
PyStr(t) == [none |-> FALSE, str |-> t]   \* a str where None may stand
Dict(items) == [none |-> FALSE, dict |-> items]
EmptyDict == {}
TitleDict == {<<"title", "T">>}

\* `metadata or {}`: None and the empty dict are falsy.
OrEmptyDict(m) == IF m.none \/ m.dict = {} THEN EmptyDict ELSE m.dict

\* A document as a caller hands it to add/update: the three arguments besides
\* the id.  The vectors cover an empty one (no embedding), a zero one, two
\* parallel ones, an orthogonal one and an opposite one.
Doc(content, embedding, metadata) ==
    [content |-> content, embedding |-> embedding, metadata |-> metadata]

Payloads ==
    {Doc("a", <<1, 0>>, None),
     Doc("b", <<2, 0>>, Dict(TitleDict)),
     Doc("a", <<0, 1>>, Dict(TitleDict)),
     Doc("b", <<-1, 0>>, None),
     Doc("a", <<>>, Dict(EmptyDict)),
     Doc("b", <<0, 0>>, Dict(TitleDict))}

\* What the service is asked to index: content and metadata, with the vector
\* embed_single returns for the content (<<>>: the backend failed).
ServicePayloads ==
    {Doc("a", <<1, 0>>, None),
     Doc("b", <<2, 0>>, Dict(TitleDict)),
     Doc("a", <<>>, Dict(TitleDict)),
     Doc("b", <<>>, None)}

\* The documents used where only the index file is of interest.
DiskPayloads ==
    {Doc("a", <<1, 0>>, None),
     Doc("b", <<>>, Dict(TitleDict))}

Queries == {<<0, 0>>, <<1, 0>>, <<0, 1>>}

VARIABLES
    up,            \* TRUE while a VectorStore instance exists in a process
    documents,     \* VectorStore.documents: the dict, in insertion order
    file,          \* vector_index.json on disk
    useFallback,   \* EmbeddingService._use_fallback
    ret,           \* the last store/service call and what it returned
    latest,        \* history: per id, its most recent add/update/delete
    provider,      \* EmbeddingClient.provider
    texts,         \* the argument of the running embed() call
    embeddings,    \* its local list `embeddings`
    responses,     \* history: what the backend answered, one per text so far
    embedRet,      \* what embed() returned, once it has
    variant,       \* the RAG request running: "batch" or "stream"
    useKb,         \* its use_knowledge_base flag
    question,      \* its question / message text
    genProvider,   \* AIService.provider
    pc,            \* where the request stands
    calls,         \* history: the calls it made to the embedding backend,
                   \* the store and the generation provider, in order
    queryEmbedding,\* what embed_single(question) returned
    contextDocs,   \* context_docs
    sources,       \* sources
    answer,        \* what RAGService.chat returned, once it has
    events,        \* the SSE events generate() has yielded
    received,      \* the chunks chat_stream has yielded to generate()
    streamEnd,     \* history: how the provider's stream ended
    messages,      \* the assistant messages committed to the database
    history,       \* conversation_history: the earlier turns of the conversation
    settingsProvider, \* settings.ai_provider
    ragService,    \* the module-level _rag_service
    built,         \* the last AIService / RAGService construction and its result
    bookmarks,     \* the bookmarks table, per id
    inflight,      \* per id, the indexing call suspended on its embedding call
    conversations, \* the committed rows of conversations and messages
    session,       \* the rows the request's session holds uncommitted
    chatPc,        \* where the batch chat request stands
    chatRequest    \* its arguments, and the committed rows when it began

storeVars ==
    <<up, documents, file, useFallback, ret, latest>>
embedVars == <<provider, texts, embeddings, responses, embedRet>>
ragVars ==
    <<variant, useKb, question, genProvider, pc, calls, queryEmbedding,
      contextDocs, sources, answer, events, received, streamEnd, messages,
      history>>
aiVars == <<settingsProvider, ragService, built>>
bookmarkVars == <<bookmarks, inflight>>
chatVars == <<conversations, session, chatPc, chatRequest>>
extVars == <<aiVars, bookmarkVars, chatVars>>
vars == <<storeVars, embedVars, ragVars, extVars>>

(***************************************************************************)
(* The dict self.documents.  Python dicts iterate in insertion order;      *)
(* assigning to an existing key keeps the key's position.                  *)
(***************************************************************************)
Keys(docs) == {docs[i].id : i \in 1..Len(docs)}

IndexOf(docs, id) == CHOOSE i \in 1..Len(docs) : docs[i].id = id

Entry(id, content, embedding, metadata) ==
    [id |-> id, content |-> content, embedding |-> embedding,
     metadata |-> OrEmptyDict(metadata)]

\* Mutant of Put: an existing key keeps its entry (setdefault instead of
\* assignment).
PutKeepsExisting(docs, e) ==
    IF e.id \in Keys(docs) THEN docs ELSE Append(docs, e)

\* Mutant of Put: an update merges, keeping the stored vector when the new
\* one is empty.
PutKeepsVector(docs, e) ==
    IF e.id \in Keys(docs)
    THEN LET old == docs[IndexOf(docs, e.id)]
         IN [docs EXCEPT ![IndexOf(docs, e.id)] =
                IF e.embedding = <<>>
                THEN [e EXCEPT !.embedding = old.embedding]
                ELSE e]
    ELSE Append(docs, e)

\* self.documents[doc_id] = {...}
Put(docs, e) ==
    IF e.id \in Keys(docs)
    THEN [docs EXCEPT ![IndexOf(docs, e.id)] = e]
    ELSE Append(docs, e)

\* Mutant of Remove: drops the newest entry instead of the one with the key.
RemoveNewest(docs, id) ==
    SubSeq(docs, 1, Len(docs) - 1)

\* del self.documents[doc_id]
Remove(docs, id) ==
    SelectSeq(docs, LAMBDA d : d.id # id)

\* self.documents.get(doc_id)
Get(docs, id) ==
    IF id \in Keys(docs)
    THEN [found |-> TRUE, doc |-> docs[IndexOf(docs, id)]]
    ELSE [found |-> FALSE]

Count(docs) == Len(docs)

(***************************************************************************)
(* VectorStore.search: cosine similarity mapped to a relevance in [0, 1].  *)
(***************************************************************************)
RECURSIVE Dot(_, _)
Dot(u, v) ==
    IF u = <<>> THEN 0 ELSE Head(u) * Head(v) + Dot(Tail(u), Tail(v))

\* np.linalg.norm, on vectors whose norm is integral
Norm(v) ==
    LET s == Dot(v, v) IN CHOOSE r \in 0..s : r * r = s

Abs(x) == IF x < 0 THEN -x ELSE x

RECURSIVE Gcd(_, _)
Gcd(a, b) ==
    IF b = 0 THEN a ELSE Gcd(b, a % b)

Fraction(n, d) ==
    LET g == Gcd(Abs(n), d) IN [num |-> n \div g, den |-> d \div g]

\* similarity = dot / (query_norm * doc_norm); relevance = (similarity + 1) / 2
Relevance(q, v) ==
    LET norms == Norm(q) * Norm(v) IN Fraction(Dot(q, v) + norms, 2 * norms)

Less(a, b) == a.num * b.den < b.num * a.den

One == [num |-> 1, den |-> 1]

\* the two `continue` tests of the loop: an empty embedding, a zero norm
Skipped(doc) ==
    \/ doc.embedding = <<>>
    \/ Norm(doc.embedding) = 0

Result(q, doc) ==
    [id |-> doc.id, content |-> doc.content, metadata |-> doc.metadata,
     relevance |-> Relevance(q, doc.embedding)]

\* Mutant of Scan: no `continue`; a document without a usable vector is
\* kept with relevance 0.
RECURSIVE ScanKeepsAll(_, _)
ScanKeepsAll(q, docs) ==
    IF docs = <<>> THEN <<>>
    ELSE IF Skipped(Head(docs))
         THEN <<[id |-> Head(docs).id, content |-> Head(docs).content,
                 metadata |-> Head(docs).metadata,
                 relevance |-> [num |-> 0, den |-> 1]]>>
              \o ScanKeepsAll(q, Tail(docs))
    ELSE <<Result(q, Head(docs))>> \o ScanKeepsAll(q, Tail(docs))

\* the loop over self.documents.items(), appending one result per kept document
RECURSIVE Scan(_, _)
Scan(q, docs) ==
    IF docs = <<>> THEN <<>>
    ELSE IF Skipped(Head(docs)) THEN Scan(q, Tail(docs))
    ELSE <<Result(q, Head(docs))>> \o Scan(q, Tail(docs))

\* Mutant of InsertDesc: ascending order (reverse=True forgotten).
InsertAsc(sorted, x) ==
    LET k == Cardinality({i \in 1..Len(sorted) :
                             ~Less(x.relevance, sorted[i].relevance)})
    IN SubSeq(sorted, 1, k) \o <<x>> \o SubSeq(sorted, k + 1, Len(sorted))

\* Mutant of InsertDesc: descending but not stable; the later of two equal
\* keys comes first.
InsertDescUnstable(sorted, x) ==
    LET k == Cardinality({i \in 1..Len(sorted) :
                             Less(x.relevance, sorted[i].relevance)})
    IN SubSeq(sorted, 1, k) \o <<x>> \o SubSeq(sorted, k + 1, Len(sorted))

\* list.sort(key=relevance, reverse=True) is stable: equal keys keep their order
InsertDesc(sorted, x) ==
    LET k == Cardinality({i \in 1..Len(sorted) :
                             ~Less(sorted[i].relevance, x.relevance)})
    IN SubSeq(sorted, 1, k) \o <<x>> \o SubSeq(sorted, k + 1, Len(sorted))

RECURSIVE SortDesc(_)
SortDesc(rs) ==
    IF rs = <<>> THEN <<>>
    ELSE InsertDesc(SortDesc(SubSeq(rs, 1, Len(rs) - 1)), rs[Len(rs)])

\* results[:n] for n >= 0
Take(rs, n) == SubSeq(rs, 1, IF n < Len(rs) THEN n ELSE Len(rs))

Search(docs, q, n) ==
    IF docs = <<>> THEN <<>>
    ELSE IF Norm(q) = 0 THEN <<>>
    ELSE Take(SortDesc(Scan(q, docs)), n)

(***************************************************************************)
(* The index file.  It is absent, holds a complete JSON text, or holds a   *)
(* strict prefix of one (open(..., 'w') truncates before json.dump writes).*)
(***************************************************************************)
Absent == [kind |-> "absent"]
Partial == [kind |-> "partial"]

\* json.dump({'documents': self.documents}, f)
JsonDump(docs) == [kind |-> "json", data |-> [documents |-> docs]]

\* json.load(f) followed by data.get('documents', {})
JsonLoad(f) == f.data.documents

\* How a write can end: it completes, open() raises, or the dump raises
\* after the file was truncated.  _save swallows both exceptions.
SaveOutcomes == {"ok", "open_fails", "write_fails"}

Save(docs, f, outcome) ==
    CASE outcome = "ok" -> JsonDump(docs)
      [] outcome = "open_fails" -> f
      [] outcome = "write_fails" -> Partial

\* _load: a missing file leaves the dict empty; any exception resets it to {}
Load(f) ==
    CASE f.kind = "absent" -> <<>>
      [] f.kind = "json" -> JsonLoad(f)
      [] f.kind = "partial" -> <<>>

(***************************************************************************)
(* History kept beside the program state.                                  *)
(***************************************************************************)
\* latest[id] is "never" until the id is first written, "written" with the
\* arguments of its last add/update, "deleted" once a delete call followed one.
Never == [kind |-> "never"]
Deleted == [kind |-> "deleted"]
AfterDelete(h) == IF h.kind = "written" THEN Deleted ELSE h
Written(p) ==
    [kind |-> "written", content |-> p.content, embedding |-> p.embedding,
     metadata |-> p.metadata]

(***************************************************************************)
(* VectorStore.add / update / delete, each with its trailing _save.        *)
(* p is the document handed in, outcome how the write ends.                *)
(***************************************************************************)
StoreAdd(op, id, p, outcome) ==
    /\ up
    /\ documents' = Put(documents, Entry(id, p.content, p.embedding, p.metadata))
    /\ file' = Save(documents', file, outcome)
    /\ ret' = [op |-> op, id |-> id, doc |-> p]
    /\ latest' = [latest EXCEPT ![id] = Written(p)]
    /\ UNCHANGED <<up, embedVars, ragVars, aiVars, chatVars>>

Add(id, p, outcome) ==
    /\ StoreAdd("add", id, p, outcome)
    /\ UNCHANGED <<useFallback, bookmarkVars>>

\* update() calls add()
Update(id, p, outcome) ==
    /\ StoreAdd("update", id, p, outcome)
    /\ UNCHANGED <<useFallback, bookmarkVars>>

StoreDelete(op, id, outcome) ==
    /\ up
    /\ IF id \in Keys(documents)
       THEN /\ documents' = Remove(documents, id)
            /\ file' = Save(documents', file, outcome)
       ELSE UNCHANGED <<documents, file>>
    /\ ret' = [op |-> op, id |-> id]
    /\ latest' = [latest EXCEPT ![id] = AfterDelete(latest[id])]
    /\ UNCHANGED <<up, useFallback, embedVars, ragVars, aiVars, chatVars>>

Delete(id, outcome) ==
    /\ StoreDelete("delete", id, outcome)
    /\ UNCHANGED bookmarkVars

(***************************************************************************)
(* VectorStore.get / search / count: reads, recorded in ret.               *)
(***************************************************************************)
Read(r) ==
    /\ up
    /\ ret' = r
    /\ UNCHANGED <<up, documents, file, useFallback, latest, embedVars, ragVars, extVars>>

GetCall(id) ==
    Read([op |-> "get", id |-> id, value |-> Get(documents, id)])

SearchCall(q, n) ==
    Read([op |-> "search", query |-> q, n |-> n,
          value |-> Search(documents, q, n)])

CountCall ==
    Read([op |-> "count", value |-> Count(documents)])

(***************************************************************************)
(* EmbeddingService.add_document / update_document / delete_document.      *)
(* p.embedding is what embed_single returned for the content: <<>> when    *)
(* the backend failed, and then the document is stored without a vector    *)
(* and the service notes the fallback.                                     *)
(***************************************************************************)
IndexDocument(op, id, p, outcome) ==
    /\ IF p.embedding # <<>>
       THEN /\ StoreAdd(op, id, p, outcome)
            /\ UNCHANGED useFallback
       ELSE /\ StoreAdd(op, id, Doc(p.content, <<>>, p.metadata), outcome)
            /\ useFallback' = TRUE

AddDocument(id, p, outcome) ==
    /\ IndexDocument("add_document", id, p, outcome)
    /\ UNCHANGED bookmarkVars

\* update_document() calls add_document()
UpdateDocument(id, p, outcome) ==
    /\ IndexDocument("update_document", id, p, outcome)
    /\ UNCHANGED bookmarkVars

DeleteDocument(id, outcome) ==
    /\ StoreDelete("delete_document", id, outcome)
    /\ UNCHANGED bookmarkVars

(***************************************************************************)
(* Text.  Where the wording of a text matters (the lexical fallback) a     *)
(* string is the sequence of its characters, over an alphabet with a       *)
(* lower-case and an upper-case Latin letter and two CJK ideographs,       *)
(* written by their code points.                                           *)
(***************************************************************************)
\* str.lower(), character by character
LowerChar(c) == IF c = "P" THEN "p" ELSE c
Lower(t) == [i \in 1..Len(t) |-> LowerChar(t[i])]

\* `sub in t` for strings
Contains(sub, t) ==
    \E i \in 0..(Len(t) - Len(sub)) : SubSeq(t, i + 1, i + Len(sub)) = sub

\* re.findall(r'[\u4e00-\u9fff]', query)
IsCJK(c) == c \in {"U4E2D", "U6587"}
QueryChars(query) == SelectSeq(query, IsCJK)

\* metadata.get('title', '')
Title(metadata) ==
    IF \E it \in metadata : it[1] = "title"
    THEN (CHOOSE it \in metadata : it[1] = "title")[2]
    ELSE <<>>

TitleOf(t) == Dict({<<"title", t>>})

\* Documents as the service indexes them, with the vector embed_single
\* returned for the content (<<>>: the backend failed).
RetrievePayloads ==
    {Doc(<<"p", "q">>, <<1, 0>>, TitleOf(<<"P">>)),
     Doc(<<"P">>, <<0, 1>>, None),
     Doc(<<"U4E2D", "q">>, <<>>, TitleOf(<<"p">>))}

QueryTexts == {<<"P">>, <<"U4E2D">>, <<"U4E2D", "U4E2D", "U6587">>}

\* What embed_single(query) hands back: a vector, or <<>> when the backend
\* failed.
QueryEmbeddings == {<<>>, <<1, 0>>}

Frac(n, d) == [num |-> n, den |-> d]
MinRelevances == {Frac(3, 10), Frac(9, 10)}

\* min_relevance: float = 0.3
DefaultMinRelevance == Frac(3, 10)

\* top_k: int = 5
DefaultTopK == 5

(***************************************************************************)
(* EmbeddingService._fallback_search: the lexical scorer.                  *)
(***************************************************************************)
Plus(a, b) == Fraction(a.num * b.den + b.num * a.den, a.den * b.den)

\* sum(1 for c in query_chars if c in content)
Matching(chars, content) ==
    Cardinality({i \in 1..Len(chars) : Contains(<<chars[i]>>, content)})

\* score: 0.6 for the query inside the content, 0.3 for the query inside
\* the title, 0.4 times the share of the query's CJK characters found in
\* the content
FallbackScore(query, doc) ==
    LET content == Lower(doc.content)
        title == Lower(Title(doc.metadata))
        chars == QueryChars(query)
        s1 == IF Contains(Lower(query), content) THEN Frac(3, 5) ELSE Frac(0, 1)
        s2 == IF Contains(Lower(query), title) THEN Frac(3, 10) ELSE Frac(0, 1)
        s3 == IF chars # <<>>
              THEN Fraction(2 * Matching(chars, content), 5 * Len(chars))
              ELSE Frac(0, 1)
    IN Plus(Plus(s1, s2), s3)

\* the floor `score > 0.2`
FallbackFloor == Frac(1, 5)

\* Mutant of Clamp: the score is reported as summed.
NoClamp(x) == x

\* min(score, 1.0)
Clamp(x) == IF Less(One, x) THEN One ELSE x

RECURSIVE FallbackScan(_, _)
FallbackScan(query, docs) ==
    IF docs = <<>> THEN <<>>
    ELSE LET doc == Head(docs)
             score == FallbackScore(query, doc)
         IN IF Less(FallbackFloor, score)
            THEN <<[id |-> doc.id, content |-> doc.content,
                    metadata |-> doc.metadata, relevance |-> Clamp(score)]>>
                 \o FallbackScan(query, Tail(docs))
            ELSE FallbackScan(query, Tail(docs))

FallbackSearch(docs, query, n) ==
    Take(SortDesc(FallbackScan(query, docs)), n)

FallbackCall(query, n) ==
    Read([op |-> "fallback_search", query |-> query, n |-> n,
          value |-> FallbackSearch(documents, query, n)])

\* Documents and queries for the scorer: every weight alone, all three
\* together (1.3 before the clamp), and a share of exactly one half (0.2).
FallbackPayloads ==
    RetrievePayloads
        \cup {Doc(<<"U4E2D", "U6587">>, <<>>, TitleOf(<<"U4E2D", "U6587">>))}
FallbackQueries == QueryTexts \cup {<<"U4E2D", "U6587">>}

(***************************************************************************)
(* EmbeddingService.search and RAGService.retrieve.  qe is what            *)
(* embed_single(query) returned.                                           *)
(***************************************************************************)
\* the filter `r['relevance'] > 0.5`
SearchFloor == Frac(1, 2)

\* Mutant of ServiceSearch: no fallback; a failed query embedding finds
\* nothing.
ServiceSearchNoFallback(docs, query, qe, n) ==
    IF qe # <<>>
    THEN SelectSeq(Search(docs, qe, n), LAMBDA r : Less(SearchFloor, r.relevance))
    ELSE <<>>

ServiceSearch(docs, query, qe, n) ==
    IF qe # <<>>
    THEN SelectSeq(Search(docs, qe, n), LAMBDA r : Less(SearchFloor, r.relevance))
    ELSE FallbackSearch(docs, query, n)

\* [r for r in results if r.get('relevance', 0) >= min_relevance]
Retrieve(docs, query, qe, top_k, min_relevance) ==
    SelectSeq(ServiceSearch(docs, query, qe, top_k),
              LAMBDA r : ~Less(r.relevance, min_relevance))

RetrieveCall(query, qe, top_k, min_relevance) ==
    Read([op |-> "retrieve", query |-> query, embedding |-> qe,
          top_k |-> top_k, min_relevance |-> min_relevance,
          value |-> Retrieve(documents, query, qe, top_k, min_relevance)])

\* EmbeddingService.get_collection_stats
GetCollectionStats(docs, fallback) ==
    [count |-> Count(docs), using_embeddings |-> ~fallback]

StatsCall ==
    Read([op |-> "stats", value |-> GetCollectionStats(documents, useFallback)])

(***************************************************************************)
(* Initial values of the variable groups.                                  *)
(***************************************************************************)
StoreIdle ==
    /\ useFallback = FALSE
    /\ ret = [op |-> "init"]
    /\ latest = [id \in Ids |-> Never]

EmbedIdle ==
    /\ provider = "doubao"
    /\ texts = <<>>
    /\ embeddings = <<>>
    /\ responses = <<>>
    /\ embedRet = [op |-> "none"]

RagIdle ==
    /\ variant = "batch"
    /\ useKb = TRUE
    /\ question = <<>>
    /\ genProvider = "openai"
    /\ pc = "idle"
    /\ calls = <<>>
    /\ queryEmbedding = <<>>
    /\ contextDocs = <<>>
    /\ sources = <<>>
    /\ answer = [op |-> "none"]
    /\ events = <<>>
    /\ received = <<>>
    /\ streamEnd = "none"
    /\ messages = <<>>
    /\ history = <<>>

AiIdle ==
    /\ settingsProvider = "openai"
    /\ ragService = None
    /\ built = [op |-> "none"]

BookmarkIdle ==
    /\ bookmarks = <<>>
    /\ inflight = <<>>

ChatIdle ==
    /\ conversations = <<>>
    /\ session = <<>>
    /\ chatPc = "idle"
    /\ chatRequest = [op |-> "none"]

ExtIdle == AiIdle /\ BookmarkIdle /\ ChatIdle

(***************************************************************************)
(* Spec: the VectorStore API in one process, on a fresh directory.  A      *)
(* write completes or fails after the file was truncated.                  *)
(***************************************************************************)
Init ==
    /\ up = TRUE
    /\ documents = <<>>
    /\ file = Absent
    /\ StoreIdle
    /\ EmbedIdle
    /\ RagIdle
    /\ ExtIdle

Next ==
    \/ \E id \in Ids, p \in Payloads, o \in {"ok", "write_fails"} :
          Add(id, p, o)
    \/ \E id \in Ids, p \in Payloads, o \in {"ok", "write_fails"} :
          Update(id, p, o)
    \/ \E id \in Ids, o \in {"ok", "write_fails"} : Delete(id, o)
    \/ \E id \in Ids : GetCall(id)
    \/ \E q \in Queries, n \in 0..MaxLimit : SearchCall(q, n)
    \/ CountCall

Spec == Init /\ [][Next]_vars

(***************************************************************************)
(* SpecService: the EmbeddingService's indexing calls on top of the store, *)
(* mixed with direct store calls.                                          *)
(***************************************************************************)
NextService ==
    \/ \E id \in Ids, p \in ServicePayloads, o \in {"ok", "write_fails"} :
          AddDocument(id, p, o)
    \/ \E id \in Ids, p \in ServicePayloads, o \in {"ok", "write_fails"} :
          UpdateDocument(id, p, o)
    \/ \E id \in Ids, o \in {"ok", "write_fails"} : DeleteDocument(id, o)
    \/ \E id \in Ids, p \in ServicePayloads, o \in {"ok", "write_fails"} :
          Add(id, p, o)
    \/ \E id \in Ids, p \in ServicePayloads, o \in {"ok", "write_fails"} :
          Update(id, p, o)
    \/ \E id \in Ids, o \in {"ok", "write_fails"} : Delete(id, o)
    \/ CountCall

SpecService == Init /\ [][NextService]_vars

(***************************************************************************)
(* SpecRetrieve: documents indexed and removed through the service, and    *)
(* retrieve() calls whose query embedding succeeds or fails.               *)
(***************************************************************************)
NextRetrieve ==
    \/ \E id \in Ids, p \in RetrievePayloads : AddDocument(id, p, "ok")
    \/ \E id \in Ids : DeleteDocument(id, "ok")
    \/ \E query \in QueryTexts, qe \in QueryEmbeddings,
          top_k \in 1..MaxLimit, m \in MinRelevances :
          RetrieveCall(query, qe, top_k, m)
    \/ StatsCall

SpecRetrieve == Init /\ [][NextRetrieve]_vars

(***************************************************************************)
(* SpecFallback: documents indexed and removed through the service, and    *)
(* direct calls of the lexical scorer.                                     *)
(***************************************************************************)
NextFallback ==
    \/ \E id \in Ids, p \in FallbackPayloads : AddDocument(id, p, "ok")
    \/ \E id \in Ids : DeleteDocument(id, "ok")
    \/ \E query \in FallbackQueries, n \in 0..MaxLimit : FallbackCall(query, n)

SpecFallback == Init /\ [][NextFallback]_vars

(***************************************************************************)
(* SpecDisk: the store and its index file over several process lifetimes.  *)
(* A write may complete, fail at open() or fail after truncation; the      *)
(* process may exit, or die inside a mutating call around its write.       *)
(***************************************************************************)
\* VectorStore.__init__: mkdir, documents = {}, then _load()
Construct ==
    /\ ~up
    /\ up' = TRUE
    /\ documents' = Load(file)
    /\ ret' = [op |-> "construct", found |-> file.kind, prior |-> ret]
    /\ latest' = [id \in Ids |->
                    IF id \in Keys(documents')
                    THEN LET d == Get(documents', id).doc
                         IN Written(Doc(d.content, d.embedding, Dict(d.metadata)))
                    ELSE Never]
    /\ UNCHANGED <<file, useFallback, embedVars, ragVars, extVars>>

\* The process ends with no call in flight.
Exit ==
    /\ up
    /\ up' = FALSE
    /\ documents' = <<>>
    /\ ret' = [op |-> "exit"]
    /\ latest' = [id \in Ids |-> Never]
    /\ UNCHANGED <<file, useFallback, embedVars, ragVars, extVars>>

\* Where the process dies inside _save: before open(), after open() has
\* truncated the file, or after the dump was written out.
CrashPoints == {"before_open", "after_truncate", "after_write"}

FileAtCrash(docs, f, point) ==
    CASE point = "before_open" -> f
      [] point = "after_truncate" -> Partial
      [] point = "after_write" -> JsonDump(docs)

\* The process dies inside a mutating call that has updated the dict to
\* `docs` and entered _save.  ret keeps what every returned call had left:
\* the dict before the call, and whether the file then held exactly it.
Crash(docs, point) ==
    /\ up
    /\ up' = FALSE
    /\ documents' = <<>>
    /\ file' = FileAtCrash(docs, file, point)
    /\ ret' = [op |-> "crash", before |-> documents,
               durable |-> (Load(file) = documents)]
    /\ latest' = [id \in Ids |-> Never]
    /\ UNCHANGED <<useFallback, embedVars, ragVars, extVars>>

CrashInAdd(id, p, point) ==
    Crash(Put(documents, Entry(id, p.content, p.embedding, p.metadata)), point)

CrashInDelete(id, point) ==
    /\ id \in Keys(documents)
    /\ Crash(Remove(documents, id), point)

InitDisk ==
    /\ up = FALSE
    /\ documents = <<>>
    /\ file = Absent
    /\ StoreIdle
    /\ EmbedIdle
    /\ RagIdle
    /\ ExtIdle

NextDisk ==
    \/ Construct
    \/ Exit
    \/ \E id \in Ids, p \in DiskPayloads, o \in SaveOutcomes : Add(id, p, o)
    \/ \E id \in Ids, p \in DiskPayloads, o \in SaveOutcomes : Update(id, p, o)
    \/ \E id \in Ids, o \in SaveOutcomes : Delete(id, o)
    \/ \E id \in Ids, p \in DiskPayloads, c \in CrashPoints : CrashInAdd(id, p, c)
    \/ \E id \in Ids, c \in CrashPoints : CrashInDelete(id, c)

SpecDisk == InitDisk /\ [][NextDisk]_vars

(***************************************************************************)
(* EmbeddingClient.embed: one POST per text, in order, each inside its own *)
(* try/except.  A JSON value that may or may not be a list carries a tag.  *)
(***************************************************************************)
PyList(items) == [type |-> "list", items |-> items]
PyNumber(x) == [type |-> "number", value |-> x]
EmptyList == PyList(<<>>)

\* `if embedding:` and len(embedding)
Truthy(v) == IF v.type = "list" THEN v.items # <<>> ELSE v.value # 0
HasLen(v) == v.type = "list"

\* What one remote call can end in: client.post raises, a status other than
\* 200, or a 200 whose JSON body has one of the shapes
\*   "data_list"  {"data": [{"embedding": E}]}
\*   "data_dict"  {"data": {"embedding": E}}
\*   "top"        {"embedding": E}
\*   "empty"      {}
\* A body without the embedding field reads as the .get default, [].
Raised(kind) == [kind |-> "raised", error |-> kind]
Status(code) == [kind |-> "status", code |-> code]
Body(shape, e) == [kind |-> "body", shape |-> shape, embedding |-> e]

Responses ==
    {Raised("timeout"), Raised("network"), Status(500),
     Body("data_list", PyList(<<1, 0>>)), Body("data_list", PyList(<<0, 1>>)),
     Body("data_list", EmptyList), Body("data_list", PyNumber(1)),
     Body("data_dict", PyList(<<1, 0>>)), Body("top", PyList(<<1, 0>>)),
     Body("empty", EmptyList)}

\* The tail of both loops: a truthy embedding is appended and its length
\* printed inside the try, so a value without a length raises after the
\* append and the handler appends [] as well.
AppendFound(e) ==
    IF Truthy(e)
    THEN IF HasLen(e) THEN <<e>> ELSE <<e, EmptyList>>
    ELSE <<EmptyList>>

\* What one iteration of _embed_openai appends to `embeddings`.
OpenAIAppends(r) ==
    CASE r.kind = "raised" -> <<EmptyList>>
      [] r.kind = "status" -> <<EmptyList>>
      [] r.kind = "body" /\ r.shape = "data_list" -> AppendFound(r.embedding)
      [] r.kind = "body" /\ r.shape = "data_dict" -> <<EmptyList>>
      [] r.kind = "body" /\ r.shape \in {"top", "empty"} -> <<EmptyList>>

\* What one iteration of _embed_doubao appends to `embeddings`.
DoubaoAppends(r) ==
    CASE r.kind = "raised" -> <<EmptyList>>
      [] r.kind = "status" -> <<EmptyList>>
      [] r.kind = "body" /\ r.shape \in {"data_list", "data_dict", "top"} ->
            AppendFound(r.embedding)
      [] r.kind = "body" /\ r.shape = "empty" -> <<EmptyList>>

Appends(prov, r) ==
    IF prov = "openai" THEN OpenAIAppends(r) ELSE DoubaoAppends(r)

\* One pass of the `for text in texts` loop, the backend answering r.
EmbedStep(r) ==
    /\ embedRet.op = "none"
    /\ Len(responses) < Len(texts)
    /\ embeddings' = embeddings \o Appends(provider, r)
    /\ responses' = Append(responses, r)
    /\ UNCHANGED <<provider, texts, embedRet, storeVars, ragVars, extVars>>

\* return embeddings
EmbedReturn ==
    /\ embedRet.op = "none"
    /\ Len(responses) = Len(texts)
    /\ embedRet' = [op |-> "embed", value |-> embeddings]
    /\ UNCHANGED <<provider, texts, embeddings, responses, storeVars, ragVars, extVars>>

\* embed_single: results[0] if results else []
EmbedSingle(results) ==
    IF results # <<>> THEN results[1] ELSE EmptyList

\* embed_single(text): embed([text]) has run its one pass and returns; the
\* first element of its result is handed on.
EmbedSingleReturn ==
    /\ embedRet.op = "none"
    /\ Len(texts) = 1
    /\ Len(responses) = Len(texts)
    /\ embedRet' = [op |-> "embed_single", results |-> embeddings,
                    value |-> EmbedSingle(embeddings)]
    /\ UNCHANGED <<provider, texts, embeddings, responses, storeVars, ragVars, extVars>>

(***************************************************************************)
(* SpecEmbed: one embed(texts) call, for either provider.                  *)
(***************************************************************************)
Texts == {"a", "b"}
TextLists == UNION {[1..n -> Texts] : n \in 0..MaxTexts}

InitEmbed ==
    /\ up = FALSE
    /\ documents = <<>>
    /\ file = Absent
    /\ StoreIdle
    /\ provider \in {"openai", "doubao"}
    /\ texts \in TextLists
    /\ embeddings = <<>>
    /\ responses = <<>>
    /\ embedRet = [op |-> "none"]
    /\ RagIdle
    /\ ExtIdle

NextEmbed ==
    \/ \E r \in Responses : EmbedStep(r)
    \/ EmbedReturn
    \/ EmbedSingleReturn

SpecEmbed == InitEmbed /\ [][NextEmbed]_vars

(***************************************************************************)
(* One RAG request: RAGService.chat (batch) and the generator of           *)
(* POST /chat/stream (stream).  Each step is one call the request awaits   *)
(* or one event it yields.                                                 *)
(***************************************************************************)
MaxChunks == 2     \* a provider stream delivers at most this many chunks

\* the fixed answer of RAGService.chat when nothing was retrieved
NotFoundMessage == "not_found_in_knowledge_base"

\* `if use_knowledge_base:` / `if data.use_knowledge_base:`
\* Mutant: retrieval runs whatever the flag says.
RetrievalAlways(kb) == TRUE

StartsWithRetrieval(kb) == kb

\* What EmbeddingService.search calls once embed_single has returned: the
\* store's search for a non-empty vector, the lexical fallback otherwise.
\* Mutant: an empty vector is tried on the store before the fallback.
SearchCallsBoth(qe) ==
    IF qe # <<>> THEN <<[kind |-> "search"]>>
    ELSE <<[kind |-> "search"], [kind |-> "fallback"]>>

SearchCalls(qe) ==
    IF qe # <<>> THEN <<[kind |-> "search"]>> ELSE <<[kind |-> "fallback"]>>

\* the loop building `sources` from context_docs
\* metadata.get('title', U+672A U+547D U+540D): the title, or "unnamed"
Unnamed == <<"U672A", "U547D", "U540D">>
SourceTitle(metadata) ==
    IF \E it \in metadata : it[1] = "title"
    THEN (CHOOSE it \in metadata : it[1] = "title")[2]
    ELSE Unnamed

\* metadata.get('url')
SourceUrl(metadata) ==
    IF \E it \in metadata : it[1] = "url"
    THEN PyStr((CHOOSE it \in metadata : it[1] = "url")[2])
    ELSE None

\* (content[:200] + '...') if content else None
SnippetLen == 200
Ellipsis == <<".", ".", ".">>

\* Mutant of Snippet: the content is not cut.
SnippetUncut(content) ==
    IF content # <<>> THEN PyStr(content \o Ellipsis) ELSE None

Snippet(content) ==
    IF content # <<>> THEN PyStr(Take(content, SnippetLen) \o Ellipsis) ELSE None

Sources(docs) ==
    [i \in 1..Len(docs) |->
        [bookmark_id |-> docs[i].id,
         title |-> SourceTitle(docs[i].metadata),
         url |-> SourceUrl(docs[i].metadata),
         relevance |-> docs[i].relevance,
         snippet |-> Snippet(docs[i].content)]]

\* `if context_docs or not use_knowledge_base:`
\* Mutant: generation runs whatever was retrieved.
ShouldGenerateAlways(docs, kb) == TRUE

ShouldGenerate(docs, kb) == docs # <<>> \/ ~kb

\* The system instruction.  "knowledge_base" tells the model to answer from
\* the retrieved content listed in it; "general_knowledge" tells it to
\* answer from its own knowledge and to say the answer is not from the
\* knowledge base.
KnowledgeBasePrompt(docs) ==
    [kind |-> "knowledge_base", context |-> [i \in 1..Len(docs) |-> docs[i].id]]
GeneralKnowledgePrompt == [kind |-> "general_knowledge"]

\* AIService.answer_with_context: one prompt, whatever the context holds
BatchSystemPrompt(docs) == KnowledgeBasePrompt(docs)

\* generate(): `if context_docs: ... else: ...`
StreamSystemPrompt(docs) ==
    IF docs # <<>> THEN KnowledgeBasePrompt(docs) ELSE GeneralKnowledgePrompt

\* conversation_history as the endpoints build it from the stored turns:
\* user and assistant messages alternating, told apart by their position
MaxHistory == 7    \* a conversation has at most this many earlier messages
Turn(i) ==
    [role |-> IF i % 2 = 1 THEN "user" ELSE "assistant", content |-> [turn |-> i]]
Histories == {[i \in 1..n |-> Turn(i)] : n \in 0..MaxHistory}

\* conversation_history[-6:]
HistoryWindow == 6
LastN(s, n) == SubSeq(s, IF Len(s) > n THEN Len(s) - n + 1 ELSE 1, Len(s))

SystemMessage(system) == [role |-> "system", content |-> system]
UserMessage(q) == [role |-> "user", content |-> [question |-> q]]

\* AIService.answer_with_context: system prompt, the last six messages of
\* the history, the question
BatchMessages(system, hist, q) ==
    <<SystemMessage(system)>> \o LastN(hist, HistoryWindow) \o <<UserMessage(q)>>

\* generate(): [system, *conversation_history, user]
StreamMessages(system, hist, q) ==
    <<SystemMessage(system)>> \o hist \o <<UserMessage(q)>>

\* What each client puts into its HTTP payload.  `system` is the payload's
\* own system field, `messages` the list of turns it sends.
NonSystem(msgs) == SelectSeq(msgs, LAMBDA m : m.role # "system")

\* OpenAICompatibleClient: "messages": messages
OpenAIRequest(msgs) ==
    [api |-> "chat/completions", system |-> <<>>, messages |-> msgs]

\* ClaudeClient: the last system message becomes payload["system"], the
\* others are sent in order
ClaudeRequest(msgs) ==
    LET sys == SelectSeq(msgs, LAMBDA m : m.role = "system")
    IN  [api |-> "messages",
         system |-> IF sys = <<>> THEN <<>> ELSE <<sys[Len(sys)].content>>,
         messages |-> NonSystem(msgs)]

\* GeminiClient: system messages are skipped (`continue`); user stays user,
\* every other role becomes model
GeminiRequest(msgs) ==
    LET rest == NonSystem(msgs)
    IN  [api |-> "generateContent", system |-> <<>>,
         messages |-> [i \in 1..Len(rest) |->
                         [role |-> IF rest[i].role = "user" THEN "user" ELSE "model",
                          content |-> rest[i].content]]]

Request(prov, msgs) ==
    CASE prov = "claude" -> ClaudeRequest(msgs)
      [] prov = "gemini" -> GeminiRequest(msgs)
      [] OTHER -> OpenAIRequest(msgs)

\* the call to the generation provider: the system prompt built, the message
\* list handed to AIService, the payload its client sends
Generate(system, msgs, prov) ==
    [kind |-> "generate", system |-> system, messages |-> msgs,
     request |-> Request(prov, msgs)]

\* A chunk chat_stream yields: the clients yield the text of a delta, a str;
\* generate() reads chunk.get("type") and chunk.get("data"), which only a
\* dict has.
StrChunk == [py |-> "str"]
DictChunk(t) == [py |-> "dict", type |-> t]
Chunks == {StrChunk, DictChunk("thinking"), DictChunk("content")}

\* How the provider's HTTP stream ends: with its completion signal, with an
\* error event inside the 200 stream, or with a transport/status error.
StreamEnds == {"complete", "error_event", "raises"}

\* What the client's chat_stream does then.  OpenAICompatibleClient reads
\* data["choices"] of every data line, so an error event raises KeyError;
\* ClaudeClient skips every event that is not a content_block_delta.
ChatStreamEnd(prov, how) ==
    CASE how = "complete" -> "returns"
      [] how = "raises" -> "raises"
      [] how = "error_event" /\ prov = "claude" -> "returns"
      [] how = "error_event" /\ prov # "claude" -> "raises"

\* The n-th chunk of a stream carries the n-th piece of text: its position
\* stands for its text, so that pieces are told apart.
Numbered(c, n) ==
    [x \in DOMAIN c \cup {"data"} |-> IF x = "data" THEN n ELSE c[x]]

\* full_response: the data of the chunks that are not thinking, concatenated
FullResponse(chunks) ==
    LET kept == SelectSeq(chunks, LAMBDA c : c.py = "dict" /\ c.type # "thinking")
    IN  [i \in 1..Len(kept) |-> kept[i].data]

Event(type, data) == [type |-> type, data |-> data]

\* Retrieval is skipped: context_docs and sources stay empty.
SkipRetrieval ==
    /\ pc = "start"
    /\ ~StartsWithRetrieval(useKb)
    /\ pc' = "retrieved"
    /\ UNCHANGED <<variant, useKb, question, genProvider, calls,
                   queryEmbedding, contextDocs, sources, answer, events,
                   received, streamEnd, messages, history, storeVars, embedVars,
                   extVars>>

\* retrieve -> EmbeddingService.search -> embed_single(question), which
\* returns qe
EmbedQuery(qe) ==
    /\ pc = "start"
    /\ StartsWithRetrieval(useKb)
    /\ calls' = Append(calls, [kind |-> "embed"])
    /\ queryEmbedding' = qe
    /\ pc' = "embedded"
    /\ UNCHANGED <<variant, useKb, question, genProvider, contextDocs,
                   sources, answer, events, received, streamEnd, messages,
                   history, storeVars, embedVars, extVars>>

\* the rest of retrieve(question) with the default top_k and min_relevance,
\* and the loop that fills sources
SearchStore ==
    /\ pc = "embedded"
    /\ calls' = calls \o SearchCalls(queryEmbedding)
    /\ contextDocs' = Retrieve(documents, question, queryEmbedding,
                               DefaultTopK, DefaultMinRelevance)
    /\ sources' = Sources(contextDocs')
    /\ pc' = "retrieved"
    /\ UNCHANGED <<variant, useKb, question, genProvider, queryEmbedding,
                   answer, events, received, streamEnd, messages,
                   history, storeVars, embedVars, extVars>>

\* RAGService.chat after retrieval: call generate_answer, or return the
\* fixed answer
BatchGround ==
    /\ pc = "retrieved"
    /\ variant = "batch"
    /\ IF ShouldGenerate(contextDocs, useKb)
       THEN /\ calls' = Append(calls,
                              Generate(BatchSystemPrompt(contextDocs),
                                       BatchMessages(BatchSystemPrompt(contextDocs),
                                                     history, question),
                                       genProvider))
            /\ pc' = "generating"
            /\ UNCHANGED answer
       ELSE /\ answer' = [op |-> "chat", answer |-> NotFoundMessage,
                          sources |-> sources]
            /\ pc' = "done"
            /\ UNCHANGED calls
    /\ UNCHANGED <<variant, useKb, question, genProvider, queryEmbedding,
                   contextDocs, sources, events, received, streamEnd,
                   messages, history, storeVars, embedVars,
                   extVars>>

\* The provider's chat() returns a text, or raises.
BatchGenerated(outcome) ==
    /\ pc = "generating"
    /\ IF outcome = "ok"
       THEN /\ answer' = [op |-> "chat", answer |-> "generated",
                          sources |-> sources]
            /\ pc' = "done"
       ELSE /\ pc' = "failed"
            /\ UNCHANGED answer
    /\ UNCHANGED <<variant, useKb, question, genProvider, calls,
                   queryEmbedding, contextDocs, sources, events, received,
                   streamEnd, messages, history, storeVars, embedVars,
                   extVars>>

\* generate(): `if sources: yield sources`
EmitSources ==
    /\ pc = "retrieved"
    /\ variant = "stream"
    /\ events' = IF sources # <<>>
                 THEN Append(events, Event("sources", sources))
                 ELSE events
    /\ pc' = "sources"
    /\ UNCHANGED <<variant, useKb, question, genProvider, calls,
                   queryEmbedding, contextDocs, sources, answer, received,
                   streamEnd, messages, history, storeVars, embedVars,
                   extVars>>

\* generate(): yield conversation_id
EmitConversationId ==
    /\ pc = "sources"
    /\ events' = Append(events, Event("conversation_id", "c1"))
    /\ pc' = "conversation_id"
    /\ UNCHANGED <<variant, useKb, question, genProvider, calls,
                   queryEmbedding, contextDocs, sources, answer, received,
                   streamEnd, messages, history, storeVars, embedVars,
                   extVars>>

\* generate(): build the system prompt and open ai_service.chat_stream
StartStream ==
    /\ pc = "conversation_id"
    /\ calls' = Append(calls,
                       Generate(StreamSystemPrompt(contextDocs),
                                StreamMessages(StreamSystemPrompt(contextDocs),
                                               history, question),
                                genProvider))
    /\ pc' = "streaming"
    /\ UNCHANGED <<variant, useKb, question, genProvider, queryEmbedding,
                   contextDocs, sources, answer, events, received, streamEnd,
                   messages, history, storeVars, embedVars,
                   extVars>>

\* One pass of `async for chunk in chat_stream(...)`: chunk.get raises
\* AttributeError on a str and ends the generator; a dict is yielded as a
\* thinking or a content event.
StreamChunk(c) ==
    /\ pc = "streaming"
    /\ Len(received) < MaxChunks
    /\ received' = Append(received, Numbered(c, Len(received) + 1))
    /\ IF c.py = "str"
       THEN /\ pc' = "failed"
            /\ UNCHANGED events
       ELSE /\ events' = Append(events, Event(c.type, Len(received) + 1))
            /\ UNCHANGED pc
    /\ UNCHANGED <<variant, useKb, question, genProvider, calls,
                   queryEmbedding, contextDocs, sources, answer, streamEnd,
                   messages, history, storeVars, embedVars,
                   extVars>>

\* The provider's stream ends.  When chat_stream returns, the assistant
\* message is added and committed and `done` is yielded with its id; an
\* exception from chat_stream or from the commit ends the generator.
StreamEnd(how, commit) ==
    /\ pc = "streaming"
    /\ streamEnd' = how
    /\ IF ChatStreamEnd(genProvider, how) = "returns" /\ commit = "ok"
       THEN /\ messages' = Append(messages,
                              [id |-> Len(messages) + 1,
                               content |-> FullResponse(received),
                               sources |-> sources])
            /\ events' = Append(events, Event("done", Len(messages) + 1))
            /\ pc' = "done"
       ELSE /\ pc' = "failed"
            /\ UNCHANGED <<messages, events>>
    /\ UNCHANGED <<variant, useKb, question, genProvider, calls,
                   queryEmbedding, contextDocs, sources, answer, received,
                   history, storeVars, embedVars, extVars>>

\* The consumer of the StreamingResponse goes away: the generator is closed
\* where it is suspended, at a yield or waiting for the next chunk.
Abandon ==
    /\ variant = "stream"
    /\ \/ pc = "sources" /\ sources # <<>>
       \/ pc \in {"conversation_id", "streaming"}
    /\ pc' = "abandoned"
    /\ UNCHANGED <<variant, useKb, question, genProvider, calls,
                   queryEmbedding, contextDocs, sources, answer, events,
                   received, streamEnd, messages, history, storeVars, embedVars,
                   extVars>>

(***************************************************************************)
(* SpecRag: one request against a store indexed beforehand.                *)
(***************************************************************************)
\* The stores: up to NumIds documents, added in the order of their ids.
RagStores ==
    UNION {{[i \in 1..n |->
                Entry(IdNames[i], f[i].content, f[i].embedding, f[i].metadata)]
            : f \in [1..n -> RetrievePayloads]} : n \in 0..NumIds}

InitRag ==
    /\ up = TRUE
    /\ documents \in RagStores
    /\ file = JsonDump(documents)
    /\ StoreIdle
    /\ EmbedIdle
    /\ variant \in {"batch", "stream"}
    /\ useKb \in BOOLEAN
    /\ question \in QueryTexts
    /\ genProvider \in {"openai", "claude"}
    /\ pc = "start"
    /\ calls = <<>>
    /\ queryEmbedding = <<>>
    /\ contextDocs = <<>>
    /\ sources = <<>>
    /\ answer = [op |-> "none"]
    /\ events = <<>>
    /\ received = <<>>
    /\ streamEnd = "none"
    /\ messages = <<>>
    /\ history = <<>>
    /\ ExtIdle

NextRag ==
    \/ SkipRetrieval
    \/ \E qe \in QueryEmbeddings : EmbedQuery(qe)
    \/ SearchStore
    \/ BatchGround
    \/ \E o \in {"ok", "raises"} : BatchGenerated(o)
    \/ EmitSources
    \/ EmitConversationId
    \/ StartStream
    \/ \E c \in Chunks : StreamChunk(c)
    \/ \E how \in StreamEnds, commit \in {"ok", "fails"} : StreamEnd(how, commit)
    \/ Abandon

SpecRag == InitRag /\ [][NextRag]_vars

(***************************************************************************)
(* SpecSources: one request against documents with and without title and   *)
(* url, with a content longer than a snippet, and with no content.         *)
(***************************************************************************)
LongText == [i \in 1..(SnippetLen + 1) |-> "a"]

SourcePayloads ==
    {Doc(<<"p", "q">>, <<1, 0>>, Dict({<<"title", <<"P">>>>, <<"url", <<"u">>>>})),
     Doc(LongText, <<1, 0>>, TitleOf(<<"P">>)),
     Doc(<<>>, <<1, 0>>, None)}

SourceStores ==
    UNION {{[i \in 1..n |->
                Entry(IdNames[i], f[i].content, f[i].embedding, f[i].metadata)]
            : f \in [1..n -> SourcePayloads]} : n \in 0..NumIds}

InitSources ==
    /\ up = TRUE
    /\ documents \in SourceStores
    /\ file = JsonDump(documents)
    /\ StoreIdle
    /\ EmbedIdle
    /\ variant \in {"batch", "stream"}
    /\ useKb \in BOOLEAN
    /\ question = <<"P">>
    /\ genProvider = "openai"
    /\ pc = "start"
    /\ calls = <<>>
    /\ queryEmbedding = <<>>
    /\ contextDocs = <<>>
    /\ sources = <<>>
    /\ answer = [op |-> "none"]
    /\ events = <<>>
    /\ received = <<>>
    /\ streamEnd = "none"
    /\ messages = <<>>
    /\ history = <<>>
    /\ ExtIdle

SpecSources == InitSources /\ [][NextRag]_vars

(***************************************************************************)
(* SpecPrompt: one request inside a conversation that already has turns,   *)
(* on each of the three client classes.                                    *)
(***************************************************************************)
PromptStores == {docs \in RagStores : Len(docs) <= 1}

InitPrompt ==
    /\ up = TRUE
    /\ documents \in PromptStores
    /\ file = JsonDump(documents)
    /\ StoreIdle
    /\ EmbedIdle
    /\ variant \in {"batch", "stream"}
    /\ useKb \in BOOLEAN
    /\ question = <<"P">>
    /\ genProvider \in {"openai", "claude", "gemini"}
    /\ pc = "start"
    /\ calls = <<>>
    /\ queryEmbedding = <<>>
    /\ contextDocs = <<>>
    /\ sources = <<>>
    /\ answer = [op |-> "none"]
    /\ events = <<>>
    /\ received = <<>>
    /\ streamEnd = "none"
    /\ messages = <<>>
    /\ history \in Histories
    /\ ExtIdle

SpecPrompt == InitPrompt /\ [][NextRag]_vars

(***************************************************************************)
(* The bookmark endpoints that write the vector store: create_bookmark,    *)
(* update_bookmark, reindex_all_bookmarks, delete_bookmark.  A request     *)
(* that indexes a bookmark is suspended inside add_document while          *)
(* embed_single runs; other requests run meanwhile.                        *)
(***************************************************************************)
\* a row of the bookmarks table
NoBookmark == [state |-> "absent"]
Bookmark(content, is_embedded) ==
    [state |-> "active", content |-> content, is_embedded |-> is_embedded]
\* bookmark.is_active = False
SoftDeleted(b) == [b EXCEPT !.state = "deleted"]

\* no indexing call is suspended for the id
NoCall == [op |-> "none"]
IndexCall(op, content) == [op |-> op, content |-> content]

BookmarkContents == {<<"p", "q">>, <<"P">>}

\* metadata={'title': ..., 'url': ..., 'type': ...}
BookmarkMetadata == TitleOf(<<"P">>)

\* `bookmark.is_embedded = True` follows add_document in create_bookmark and
\* reindex_all_bookmarks, whatever add_document did; update_bookmark does
\* not touch the flag
SetsEmbedded(op) == op \in {"create", "reindex"}

\* create_bookmark up to the await inside add_document: the row is
\* committed, and `if content:` the indexing call starts
CreateBookmark(id, content) ==
    /\ bookmarks[id].state = "absent"
    /\ bookmarks' = [bookmarks EXCEPT ![id] = Bookmark(content, FALSE)]
    /\ inflight' = [inflight EXCEPT ![id] =
                       IF content # <<>> THEN IndexCall("create", content)
                       ELSE NoCall]
    /\ UNCHANGED <<storeVars, embedVars, ragVars, aiVars, chatVars>>

\* update_bookmark up to the await inside update_document
UpdateBookmark(id, content) ==
    /\ bookmarks[id].state = "active"
    /\ inflight[id] = NoCall
    /\ bookmarks' = [bookmarks EXCEPT ![id].content = content]
    /\ inflight' = [inflight EXCEPT ![id] = IndexCall("update", content)]
    /\ UNCHANGED <<storeVars, embedVars, ragVars, aiVars, chatVars>>

\* reindex_all_bookmarks reaching one bookmark of its loop, up to the await
\* inside add_document
ReindexBookmark(id) ==
    /\ bookmarks[id].state = "active"
    /\ bookmarks[id].content # <<>>
    /\ inflight[id] = NoCall
    /\ inflight' = [inflight EXCEPT ![id] =
                       IndexCall("reindex", bookmarks[id].content)]
    /\ UNCHANGED <<bookmarks, storeVars, embedVars, ragVars, aiVars, chatVars>>

\* embed_single returns `embedding` to the suspended add_document, which
\* writes the store and returns; the endpoint then sets its flag and commits
FinishIndex(id, embedding) ==
    /\ inflight[id] # NoCall
    /\ IndexDocument(IF inflight[id].op = "update" THEN "update_document"
                     ELSE "add_document",
                     id, Doc(inflight[id].content, embedding, BookmarkMetadata),
                     "ok")
    /\ bookmarks' = IF SetsEmbedded(inflight[id].op)
                    THEN [bookmarks EXCEPT ![id].is_embedded = TRUE]
                    ELSE bookmarks
    /\ inflight' = [inflight EXCEPT ![id] = NoCall]

\* delete_bookmark: the soft delete is committed, then delete_document
\* removes the id from the store
DeleteBookmark(id) ==
    /\ bookmarks[id].state = "active"
    /\ bookmarks' = [bookmarks EXCEPT ![id] = SoftDeleted(bookmarks[id])]
    /\ StoreDelete("delete_document", id, "ok")
    /\ UNCHANGED inflight

\* SpecBookmarks: the endpoints on an empty table and an empty store.
InitBookmarks ==
    /\ up = TRUE
    /\ documents = <<>>
    /\ file = Absent
    /\ StoreIdle
    /\ EmbedIdle
    /\ RagIdle
    /\ AiIdle
    /\ ChatIdle
    /\ bookmarks = [id \in Ids |-> NoBookmark]
    /\ inflight = [id \in Ids |-> NoCall]

NextBookmarks ==
    \/ \E id \in Ids, content \in BookmarkContents \cup {<<>>} :
          CreateBookmark(id, content)
    \/ \E id \in Ids, content \in BookmarkContents : UpdateBookmark(id, content)
    \/ \E id \in Ids : ReindexBookmark(id)
    \/ \E id \in Ids, embedding \in QueryEmbeddings : FinishIndex(id, embedding)
    \/ \E id \in Ids : DeleteBookmark(id)

SpecBookmarks == InitBookmarks /\ [][NextBookmarks]_vars

(***************************************************************************)
(* POST /chat, the batch endpoint, and the session get_db gives it.        *)
(* `conversations` is what is committed: the conversations in the order of *)
(* their creation, each with its messages.  `session` holds the rows added *)
(* (and flushed) in the open transaction; commit makes them durable,       *)
(* rollback and close drop them.                                           *)
(***************************************************************************)
MaxConversations == 2   \* conversations created at most
MaxTurns == 2           \* committed turns per conversation at most

ChatMessages == {"m1", "m2"}

ConversationRow(id) == [table |-> "conversations", id |-> id]
MessageRow(id, role, content) ==
    [table |-> "messages", conversation_id |-> id, role |-> role,
     content |-> content]

\* session.commit(): the rows of the transaction become durable, in order
RECURSIVE Commit(_, _)
Commit(store, rows) ==
    IF rows = <<>> THEN store
    ELSE LET row == Head(rows)
             next == IF row.table = "conversations"
                     THEN Append(store, [id |-> row.id, messages |-> <<>>])
                     ELSE [store EXCEPT ![row.conversation_id].messages =
                              Append(@, [role |-> row.role, content |-> row.content])]
         IN  Commit(next, Tail(rows))

\* session.rollback() / closing the session without commit
Rollback(rows) == <<>>

\* Mutant of AfterUserMessage: the user message is committed as soon as it
\* is added, as POST /chat/stream does.
AfterUserMessageCommitted(store, rows) ==
    [store |-> Commit(store, rows), session |-> <<>>]

\* `db.add(user_message)`: the row is staged, nothing is committed
AfterUserMessage(store, rows) == [store |-> store, session |-> rows]

\* chat() from its start to the call of rag_service.chat: the conversation
\* is loaded (404 when it does not exist) or created and flushed, and the
\* user message is added.
ChatOpen(cid, message) ==
    /\ chatPc \in {"idle", "done", "failed"}
    /\ chatRequest' = [op |-> "chat", conversation_id |-> cid,
                       message |-> message, before |-> conversations]
    /\ IF ~cid.none
       THEN IF cid.str \in 1..Len(conversations)
            THEN /\ Len(conversations[cid.str].messages) < 2 * MaxTurns
                 /\ LET after == AfterUserMessage(conversations,
                                     <<MessageRow(cid.str, "user", message)>>)
                    IN  /\ conversations' = after.store
                        /\ session' = after.session
                 /\ chatPc' = "generating"
            ELSE /\ session' = Rollback(<<>>)
                 /\ chatPc' = "failed"
                 /\ UNCHANGED conversations
       ELSE /\ Len(conversations) < MaxConversations
            /\ LET id == Len(conversations) + 1
                   after == AfterUserMessage(conversations,
                                <<ConversationRow(id),
                                  MessageRow(id, "user", message)>>)
               IN  /\ conversations' = after.store
                   /\ session' = after.session
            /\ chatPc' = "generating"
    /\ UNCHANGED <<storeVars, embedVars, ragVars, aiVars, bookmarkVars>>

\* rag_service.chat returns its result, and the assistant message is added;
\* or it raises, and get_db rolls the session back.
ChatGenerated(outcome) ==
    /\ chatPc = "generating"
    /\ IF outcome = "ok"
       THEN /\ session' = Append(session,
                              MessageRow(IF chatRequest.conversation_id.none
                                         THEN Len(chatRequest.before) + 1
                                         ELSE chatRequest.conversation_id.str,
                                         "assistant", "answer"))
            /\ chatPc' = "committing"
       ELSE /\ session' = Rollback(session)
            /\ chatPc' = "failed"
    /\ UNCHANGED <<conversations, chatRequest, storeVars, embedVars, ragVars,
                   aiVars, bookmarkVars>>

\* `await db.commit()`, then refresh and the response; a failing commit is
\* rolled back by get_db, a failure after the commit leaves it in place.
ChatCommit(outcome) ==
    /\ chatPc = "committing"
    /\ IF outcome = "commit_fails"
       THEN /\ session' = Rollback(session)
            /\ chatPc' = "failed"
            /\ UNCHANGED conversations
       ELSE /\ conversations' = Commit(conversations, session)
            /\ session' = <<>>
            /\ chatPc' = IF outcome = "ok" THEN "done" ELSE "failed"
    /\ UNCHANGED <<chatRequest, storeVars, embedVars, ragVars, aiVars,
                   bookmarkVars>>

\* SpecChat: batch chat requests, one after the other, on an empty database.
InitChat ==
    /\ up = TRUE
    /\ documents = <<>>
    /\ file = Absent
    /\ StoreIdle
    /\ EmbedIdle
    /\ RagIdle
    /\ AiIdle
    /\ BookmarkIdle
    /\ ChatIdle

NextChat ==
    \/ \E cid \in {None} \cup {PyStr(i) : i \in 1..MaxConversations},
          message \in ChatMessages : ChatOpen(cid, message)
    \/ \E outcome \in {"ok", "raises"} : ChatGenerated(outcome)
    \/ \E outcome \in {"ok", "commit_fails", "refresh_fails"} : ChatCommit(outcome)

SpecChat == InitChat /\ [][NextChat]_vars

(***************************************************************************)
(* Construction of the generation service: AIService(provider),            *)
(* RAGService(ai_provider) and the get_rag_service singleton.              *)
(***************************************************************************)
\* the identifiers _create_client knows
ProviderNames == {"openai", "claude", "gemini", "doubao", "deepseek"}

\* An Optional[str] argument: None, or a string.
ProviderArgs == {None} \cup {PyStr(t) : t \in ProviderNames \cup {"", "bogus"}}

\* the truth value Python gives an Optional[str]
Falsy(arg) == arg.none \/ arg.str = ""

\* `provider or settings.ai_provider`
ProviderOrDefault(arg, default) == IF Falsy(arg) THEN default ELSE arg.str

\* AIService._create_client
CreateClient(p) ==
    CASE p \in {"openai", "doubao", "deepseek"} ->
            [kind |-> "client", class |-> "OpenAICompatibleClient", config |-> p]
      [] p = "claude" ->
            [kind |-> "client", class |-> "ClaudeClient", config |-> p]
      [] p = "gemini" ->
            [kind |-> "client", class |-> "GeminiClient", config |-> p]
      [] OTHER -> [kind |-> "error", error |-> "ValueError"]

\* AIService.__init__: the service, or the error _create_client raised
AIServiceInit(arg, default) ==
    LET p == ProviderOrDefault(arg, default)
        client == CreateClient(p)
    IN  IF client.kind = "error" THEN client
        ELSE [kind |-> "service", provider |-> p, client |-> client]

\* RAGService.__init__ passes ai_provider through to AIService
RAGServiceInit(arg, default) ==
    LET ai == AIServiceInit(arg, default)
    IN  IF ai.kind = "error" THEN ai ELSE [kind |-> "rag", ai_service |-> ai]

NewAIService(arg) ==
    /\ built' = [op |-> "AIService", provider |-> arg,
                 result |-> AIServiceInit(arg, settingsProvider)]
    /\ UNCHANGED <<settingsProvider, ragService, storeVars, embedVars,
                   ragVars, bookmarkVars, chatVars>>

\* get_rag_service: `if _rag_service is None or ai_provider:` builds a new
\* RAGService; the assignment does not happen when the constructor raises.
GetRagService(arg) ==
    /\ IF ragService = None \/ ~Falsy(arg)
       THEN LET r == RAGServiceInit(arg, settingsProvider)
            IN  /\ built' = [op |-> "get_rag_service", provider |-> arg,
                             result |-> r]
                /\ ragService' = IF r.kind = "error" THEN ragService ELSE r
       ELSE /\ built' = [op |-> "get_rag_service", provider |-> arg,
                         result |-> ragService]
            /\ UNCHANGED ragService
    /\ UNCHANGED <<settingsProvider, storeVars, embedVars, ragVars,
                   bookmarkVars, chatVars>>

\* SpecProvider: a process with some configured default provider, in which
\* services are constructed with and without an explicit identifier.
InitProvider ==
    /\ up = TRUE
    /\ documents = <<>>
    /\ file = Absent
    /\ StoreIdle
    /\ EmbedIdle
    /\ RagIdle
    /\ BookmarkIdle
    /\ ChatIdle
    /\ settingsProvider \in ProviderNames
    /\ ragService = None
    /\ built = [op |-> "none"]

NextProvider ==
    \/ \E arg \in ProviderArgs : NewAIService(arg)
    \/ \E arg \in ProviderArgs : GetRagService(arg)

SpecProvider == InitProvider /\ [][NextProvider]_vars

(***************************************************************************)
(* Properties of the VectorStore API (Spec, SpecService).                  *)
(***************************************************************************)
StoredMetadata(m) == IF m.none THEN {} ELSE m.dict

SameAsWritten(doc, p) ==
    /\ doc.content = p.content
    /\ doc.embedding = p.embedding
    /\ doc.metadata = StoredMetadata(p.metadata)

Matchable(docs) == {i \in 1..Len(docs) : ~Skipped(docs[i])}

ResultIds(rs) == {rs[i].id : i \in 1..Len(rs)}

Min(a, b) == IF a < b THEN a ELSE b

\* C1: right after add(id, content, vector, metadata) has returned, get(id)
\* finds a document with exactly that content, vector and metadata (metadata
\* left out, None, reads back as the empty mapping), whatever the store held.
C1_AddThenGet ==
    ret.op = "add" =>
        /\ Get(documents, ret.id).found
        /\ SameAsWritten(Get(documents, ret.id).doc, ret.doc)

\* C1 witness: an add with a title in its metadata has replaced the entry
\* of an id that other documents were inserted after.
C1_Witness ==
    /\ ret.op = "add"
    /\ Len(documents) >= 2
    /\ documents[1].id = ret.id
    /\ ret.doc.metadata = Dict(TitleDict)
    /\ ret.doc.embedding # <<>>

\* C2: after any sequence of add/update/delete calls (direct or through the
\* service) no id has two entries; an id whose latest mutation was an
\* add/update holds exactly that call's content, vector and metadata, an
\* update whose embedding failed leaving the empty vector; any other id has
\* no entry; count() is the number of ids whose latest mutation was an
\* add/update.
C2_LastWriteWins ==
    /\ \A i, j \in 1..Len(documents) :
          documents[i].id = documents[j].id => i = j
    /\ \A id \in Ids :
          IF latest[id].kind = "written"
          THEN /\ Get(documents, id).found
               /\ SameAsWritten(Get(documents, id).doc, latest[id])
          ELSE ~Get(documents, id).found
    /\ ret.op \in {"add_document", "update_document"} /\ ret.doc.embedding = <<>>
          => Get(documents, ret.id).doc.embedding = <<>>
    /\ Count(documents) = Cardinality({id \in Ids : latest[id].kind = "written"})

\* C2 witness: update_document, its embedding having failed, has overwritten
\* an id that another document was inserted after.
C2_Witness ==
    /\ ret.op = "update_document"
    /\ ret.doc.embedding = <<>>
    /\ useFallback
    /\ Len(documents) >= 2
    /\ documents[1].id = ret.id

\* C3: search returns only ids that are in the store, none whose latest
\* mutation is a delete.
C3_SearchOnlyPresent ==
    ret.op = "search" =>
        \A i \in 1..Len(ret.value) :
            /\ ret.value[i].id \in Keys(documents)
            /\ latest[ret.value[i].id].kind = "written"

\* C3 witness: a search finds a document while another id, written earlier,
\* is deleted.
C3_Witness ==
    /\ ret.op = "search"
    /\ Len(ret.value) >= 1
    /\ \E id \in Ids : latest[id].kind = "deleted"

\* C4: search never returns a document whose stored vector is empty or has
\* zero norm.
C4_NoUnembeddedResult ==
    ret.op = "search" =>
        \A i \in 1..Len(ret.value) :
            /\ Get(documents, ret.value[i].id).found
            /\ ~Skipped(Get(documents, ret.value[i].id).doc)
            /\ latest[ret.value[i].id].embedding # <<>>

\* C4 witness: a search returns a result from a store that also holds a
\* document without a usable vector.
C4_Witness ==
    /\ ret.op = "search"
    /\ Len(ret.value) >= 1
    /\ \E i \in 1..Len(documents) : Skipped(documents[i])

\* C5: for a non-zero query and a limit n >= 0, search returns
\* min(n, number of matchable documents) results, of distinct documents, each
\* with its document's relevance, in non-increasing relevance order, and no
\* matchable document left out is strictly more relevant than a returned one.
C5_TopNSorted ==
    ret.op = "search" /\ Norm(ret.query) # 0 =>
        LET v == ret.value
            q == ret.query
        IN /\ Len(v) = Min(ret.n, Cardinality(Matchable(documents)))
           /\ \A i, j \in 1..Len(v) : v[i].id = v[j].id => i = j
           /\ \A i \in 1..Len(v) :
                 /\ Get(documents, v[i].id).found
                 /\ v[i].relevance =
                       Relevance(q, Get(documents, v[i].id).doc.embedding)
           /\ \A i \in 1..(Len(v) - 1) :
                 ~Less(v[i].relevance, v[i + 1].relevance)
           /\ \A d \in Matchable(documents) :
                 documents[d].id \notin ResultIds(v) =>
                    \A i \in 1..Len(v) :
                       ~Less(v[i].relevance, Relevance(q, documents[d].embedding))

\* C5 witness: the limit cut off a matchable document that is strictly less
\* relevant than the last result.
C5_Witness ==
    /\ ret.op = "search"
    /\ Norm(ret.query) # 0
    /\ Len(ret.value) >= 1
    /\ \E d \in Matchable(documents) :
          /\ documents[d].id \notin ResultIds(ret.value)
          /\ Less(Relevance(ret.query, documents[d].embedding),
                  ret.value[Len(ret.value)].relevance)

\* Documents whose cosine with the query is 1, by position in the store.
ExactMatches(docs, q) ==
    {i \in Matchable(docs) : Relevance(q, docs[i].embedding) = One}

\* C6 as claimed: every stored document V with cosine(Q, V) = 1 is the first
\* result of search(Q, n >= 1), with relevance 1.
C6_ExactMatchFirst ==
    ret.op = "search" /\ Norm(ret.query) # 0 /\ ret.n >= 1 =>
        \A i \in ExactMatches(documents, ret.query) :
            /\ ret.value # <<>>
            /\ ret.value[1].id = documents[i].id
            /\ ret.value[1].relevance = One

\* C6 amended: when the store holds documents with cosine(Q, V) = 1, the
\* first result of search(Q, n >= 1) has relevance 1 and is the one of them
\* that comes first in the store's insertion order.
C6_EarliestExactMatchFirst ==
    ret.op = "search" /\ Norm(ret.query) # 0 /\ ret.n >= 1 =>
        \A i \in ExactMatches(documents, ret.query) :
            /\ ret.value # <<>>
            /\ ret.value[1].relevance = One
            /\ (\A j \in ExactMatches(documents, ret.query) : i <= j)
                  => ret.value[1].id = documents[i].id

\* C6 witness: a search whose query has cosine 1 with two stored documents.
C6_Witness ==
    /\ ret.op = "search"
    /\ Norm(ret.query) # 0
    /\ ret.n >= 1
    /\ Cardinality(ExactMatches(documents, ret.query)) >= 2

(***************************************************************************)
(* Properties of persistence (SpecDisk).                                   *)
(***************************************************************************)
\* C7: whenever add, update or delete has returned, a fresh VectorStore on
\* the same directory loads exactly the in-memory map.
C7_DurableCommit ==
    ret.op \in {"add", "update", "delete"} => Load(file) = documents

\* C8: a store constructed after a crash inside a mutating call, when every
\* earlier write had completed, finds a complete file and holds every entry
\* the returned calls had left.
C8_CrashKeepsCommitted ==
    ret.op = "construct" /\ ret.prior.op = "crash" /\ ret.prior.durable =>
        /\ ret.found # "partial"
        /\ \A i \in 1..Len(ret.prior.before) :
              /\ Get(documents, ret.prior.before[i].id).found
              /\ Get(documents, ret.prior.before[i].id).doc = ret.prior.before[i]

\* C9: constructing a store over a corrupt index file does not yield a
\* usable store.
C9_CorruptLoadFails ==
    ret.op = "construct" /\ ret.found = "partial" => ~up

(***************************************************************************)
(* Properties of EmbeddingClient.embed (SpecEmbed).                        *)
(***************************************************************************)
\* The places of a body each provider reads the vector from.
ReadsShape(prov, shape) ==
    IF prov = "openai" THEN shape = "data_list"
    ELSE shape \in {"data_list", "data_dict", "top"}

\* The call delivered a vector: a 200 with a non-empty list where the
\* provider looks for it.
Succeeded(prov, r) ==
    /\ r.kind = "body"
    /\ ReadsShape(prov, r.shape)
    /\ r.embedding.type = "list"
    /\ r.embedding.items # <<>>

\* C10: embed returns one slot per text, in order: the vector of the call
\* when it succeeded, the empty vector when it failed.
C10_OneSlotPerText ==
    embedRet.op = "embed" =>
        /\ Len(embedRet.value) = Len(texts)
        /\ \A i \in 1..Len(texts) :
              embedRet.value[i] =
                 IF Succeeded(provider, responses[i])
                 THEN responses[i].embedding
                 ELSE EmptyList

\* The call delivered no vector: client.post raised, the status is not 200,
\* or the 200 body has no vector where the provider looks for it.
Failed(prov, r) ==
    \/ r.kind \in {"raised", "status"}
    \/ r.kind = "body" /\ (~ReadsShape(prov, r.shape) \/ r.embedding = EmptyList)

\* C11: embed and embed_single always return; the slot of a text whose call
\* timed out, hit a network error, a non-200 status or a 200 without the
\* vector field is the empty vector; embed_single returns the sole element
\* of embed([text]), or the empty vector.
C11_FailuresResolveEmpty ==
    /\ embedRet.op = "embed" =>
          \A i \in 1..Len(texts) :
              Failed(provider, responses[i]) =>
                  /\ i <= Len(embedRet.value)
                  /\ embedRet.value[i] = EmptyList
    /\ embedRet.op = "embed_single" =>
          \/ embedRet.results = <<embedRet.value>>
          \/ embedRet.value = EmptyList

(***************************************************************************)
(* Properties of retrieval (SpecRetrieve).                                 *)
(***************************************************************************)
\* C12: with a non-empty query embedding, retrieve returns exactly the
\* results of VectorStore.search(vector, top_k) whose relevance is at least
\* min_relevance; no other threshold removes a result.
C12_OnlyMinRelevanceFilters ==
    ret.op = "retrieve" /\ ret.embedding # <<>> =>
        ret.value =
            SelectSeq(Search(documents, ret.embedding, ret.top_k),
                      LAMBDA r : ~Less(r.relevance, ret.min_relevance))

\* Documents whose content literally contains the query, by position.
Containing(docs, query) ==
    {i \in 1..Len(docs) : Contains(query, docs[i].content)}

\* Documents the lexical scorer keeps, by position.
LexicalMatches(docs, query) ==
    {i \in 1..Len(docs) : Less(FallbackFloor, FallbackScore(query, docs[i]))}

\* C13: the query embedding having failed, retrieve with the default
\* min_relevance and top_k >= 1 on a store holding a document whose content
\* contains the query returns a non-empty list, every result above 0.2, and
\* holds that document when at most top_k documents match.
C13_FallbackFindsLiteralMatch ==
    /\ ret.op = "retrieve"
    /\ ret.embedding = <<>>
    /\ ret.min_relevance = DefaultMinRelevance
    /\ ret.top_k >= 1
    /\ Containing(documents, ret.query) # {}
    => /\ ret.value # <<>>
       /\ \A i \in 1..Len(ret.value) :
             Less(FallbackFloor, ret.value[i].relevance)
       /\ Cardinality(LexicalMatches(documents, ret.query)) <= ret.top_k =>
             \A i \in Containing(documents, ret.query) :
                 documents[i].id \in ResultIds(ret.value)

\* C13 witness: the fallback ran on a store where one document contains the
\* query, and another one the scorer keeps without it containing the query.
C13_Witness ==
    /\ ret.op = "retrieve"
    /\ ret.embedding = <<>>
    /\ ret.min_relevance = DefaultMinRelevance
    /\ ret.top_k >= 1
    /\ Containing(documents, ret.query) # {}
    /\ LexicalMatches(documents, ret.query) # Containing(documents, ret.query)
    /\ Cardinality(LexicalMatches(documents, ret.query)) <= ret.top_k

(***************************************************************************)
(* Properties of one RAG request (SpecRag).                                *)
(***************************************************************************)
CallsOfKind(kinds) == SelectSeq(calls, LAMBDA c : c.kind \in kinds)

EventsOfType(types) == SelectSeq(events, LAMBDA e : e.type \in types)

\* Retrieval is over (or was skipped).
Retrieved == pc \notin {"idle", "start", "embedded"}

\* C14: in RAGService.chat with the knowledge base enabled, once retrieval
\* has returned no document no generation call is made, and the call returns
\* the fixed not-found answer with an empty sources list.
C14_BatchShortCircuit ==
    variant = "batch" /\ useKb /\ Retrieved /\ contextDocs = <<>> =>
        /\ CallsOfKind({"generate"}) = <<>>
        /\ pc # "retrieved" =>
              /\ pc = "done"
              /\ answer.answer = NotFoundMessage
              /\ answer.sources = <<>>

\* C14 witness: a batch request on a store that holds documents has
\* returned after a retrieval that found none of them relevant.
C14_Witness ==
    /\ variant = "batch"
    /\ useKb
    /\ pc = "done"
    /\ contextDocs = <<>>
    /\ documents # <<>>

\* C15: in the streaming variant with the knowledge base enabled, once
\* retrieval has returned no document no generation call is made and no
\* generated text reaches the caller.
C15_StreamShortCircuit ==
    variant = "stream" /\ useKb /\ Retrieved /\ contextDocs = <<>> =>
        /\ CallsOfKind({"generate"}) = <<>>
        /\ EventsOfType({"content", "thinking"}) = <<>>
        /\ EventsOfType({"sources"}) = <<>>

\* C16: with the knowledge base disabled, in both variants, no embedding
\* call and no store search or fallback is made, nothing is retrieved, the
\* sources are empty, and the request makes exactly one generation call
\* (none yet before it reaches generation, none if the caller left first).
C16_DisabledSkipsRetrieval ==
    pc # "idle" /\ ~useKb =>
        /\ CallsOfKind({"embed", "search", "fallback"}) = <<>>
        /\ contextDocs = <<>>
        /\ sources = <<>>
        /\ EventsOfType({"sources"}) = <<>>
        /\ answer.op = "chat" => answer.sources = <<>>
        /\ Len(CallsOfKind({"generate"})) <= 1
        /\ pc \in {"generating", "streaming", "done", "failed"} =>
              Len(CallsOfKind({"generate"})) = 1

\* C16 witness: a streaming request with the knowledge base disabled has
\* completed on a store that holds a document containing the question.
C16_Witness ==
    /\ variant = "stream"
    /\ ~useKb
    /\ pc = "done"
    /\ Containing(documents, question) # {}

\* C17: with the knowledge base disabled, the system instruction of every
\* generation call is the general-knowledge one, never the one that tells
\* the model to answer from retrieved knowledge-base content.
C17_DisabledUsesGeneralPrompt ==
    pc # "idle" /\ ~useKb =>
        \A i \in 1..Len(calls) :
            calls[i].kind = "generate" =>
                calls[i].system.kind = "general_knowledge"

\* The place of a call in a request: embedding, then search, then generation.
Rank(c) ==
    CASE c.kind = "embed" -> 1
      [] c.kind \in {"search", "fallback"} -> 2
      [] c.kind = "generate" -> 3

C19_SourcesOnceDoneLast ==
    variant = "stream" /\ pc = "done" =>
        /\ Len(EventsOfType({"sources"})) = 1
        /\ \A i, j \in 1..Len(events) :
              events[i].type = "sources"
              /\ events[j].type \in {"content", "thinking"} => i < j
        /\ Len(EventsOfType({"done"})) = 1
        /\ events[Len(events)].type = "done"
        /\ \E k \in 1..Len(messages) : messages[k].id = events[Len(events)].data

\* C20: in the streaming variant an assistant message is persisted, and
\* done emitted, only after the provider's stream has completed: never
\* when the caller left or the provider failed, after however many chunks.
C20_PersistOnlyAfterCompletion ==
    variant = "stream" =>
        /\ messages # <<>> \/ EventsOfType({"done"}) # <<>> =>
              streamEnd = "complete"
        /\ pc = "abandoned" \/ streamEnd \in {"error_event", "raises"} =>
              messages = <<>> /\ EventsOfType({"done"}) = <<>>

\* C21: in a streaming request every fragment the provider's chat_stream has
\* produced is forwarded as exactly one content or thinking event, in order
\* and without loss; and when the stream has completed, the persisted
\* assistant content is the concatenation, in order, of the forwarded
\* content fragments.
Forwarded == EventsOfType({"content", "thinking"})

C21_FragmentsForwardedInOrder ==
    variant = "stream" =>
        /\ Len(Forwarded) = Len(received)
        /\ \A i \in 1..Len(Forwarded) : Forwarded[i].data = received[i].data
        /\ pc = "done" =>
              messages[Len(messages)].content =
                 LET content == EventsOfType({"content"})
                 IN  [i \in 1..Len(content) |-> content[i].data]

\* C22: stats() reports the retrieval mode in use: called after a retrieve
\* whose query embedding failed, so that it took the lexical fallback, it
\* reports using_embeddings false; called after a retrieve whose query
\* embedding succeeded, it reports true.
C22_StatsReportRetrievalMode ==
    [][(ret.op = "retrieve" /\ ret'.op = "stats")
          => ret'.value.using_embeddings = (ret.embedding # <<>>)]_vars

\* C23: constructing AIService, or RAGService through get_rag_service, with
\* a backend identifier that is not None and not one of openai, claude,
\* gemini, doubao, deepseek fails with an error and creates no client; it
\* never falls back to the configured default.
C23_UnknownProviderFails ==
    (built.op \in {"AIService", "get_rag_service"}
        /\ ~built.provider.none /\ built.provider.str \notin ProviderNames)
    => built.result.kind = "error"

\* C24: the lexical fallback returns at most n_results results, in
\* non-increasing relevance, each with a relevance above 0.2 and at most
\* 1.0.  A document's score is 0.6 when the lower-cased query is inside its
\* (lower-cased) content, plus 0.3 when it is inside its title, plus 0.4
\* times the share of the query's CJK characters found in the content,
\* clamped to 1.0; the documents scoring 0.2 or less are left out.
Share(query, content) ==
    LET at == {i \in 1..Len(query) : IsCJK(query[i])}
        found == {i \in at : \E j \in 1..Len(content) : content[j] = query[i]}
    IN  IF at = {} THEN Frac(0, 1)
        ELSE Fraction(4 * Cardinality(found), 10 * Cardinality(at))

ClaimedScore(query, doc) ==
    LET inContent == IF Contains(Lower(query), Lower(doc.content))
                     THEN Frac(6, 10) ELSE Frac(0, 1)
        inTitle == IF Contains(Lower(query), Lower(Title(doc.metadata)))
                   THEN Frac(3, 10) ELSE Frac(0, 1)
        sum == Plus(Plus(inContent, inTitle), Share(query, Lower(doc.content)))
    IN  IF Less(Frac(1, 1), sum) THEN Frac(1, 1) ELSE sum

C24_FallbackScores ==
    ret.op = "fallback_search" =>
        LET v == ret.value
            scoring == {i \in 1..Len(documents) :
                          Less(Frac(2, 10), ClaimedScore(ret.query, documents[i]))}
        IN  /\ Len(v) = Min(ret.n, Cardinality(scoring))
            /\ \A i, j \in 1..Len(v) :
                  /\ i < j => ~Less(v[i].relevance, v[j].relevance)
                  /\ i # j => v[i].id # v[j].id
            /\ \A i \in 1..Len(v) :
                  /\ Less(Frac(2, 10), v[i].relevance)
                  /\ ~Less(Frac(1, 1), v[i].relevance)
                  /\ \E k \in scoring :
                        /\ documents[k].id = v[i].id
                        /\ v[i].relevance.num * ClaimedScore(ret.query, documents[k]).den
                             = ClaimedScore(ret.query, documents[k]).num * v[i].relevance.den

\* two documents and room for two results: one is returned with its score
\* clamped from 1.3, the other is left out because it scores exactly 0.2
C24_Witness ==
    /\ ret.op = "fallback_search"
    /\ Len(ret.value) = 1
    /\ ret.n = 2
    /\ ret.value[1].relevance = One
    /\ \E i \in 1..Len(documents) :
          /\ Less(One, FallbackScore(ret.query, documents[i]))
    /\ \E i \in 1..Len(documents) :
          /\ FallbackScore(ret.query, documents[i]) = Frac(1, 5)

\* C25: in both variants the message list handed to the provider is one
\* system message, then the most recent at most N messages of the history
\* in their order (N = 6), then the question as the final user message; the
\* number of history messages never exceeds N, however long the history.
C25_HistoryWindow ==
    \A i \in 1..Len(calls) :
        calls[i].kind = "generate" =>
            LET msgs == calls[i].messages
                n == Len(msgs) - 2
            IN  /\ n >= 0
                /\ n = Min(Len(history), HistoryWindow)
                /\ msgs[1].role = "system"
                /\ \A k \in 2..Len(msgs) : msgs[k].role # "system"
                /\ msgs[Len(msgs)] = UserMessage(question)
                /\ \A k \in 1..n : msgs[1 + k] = history[Len(history) - n + k]

\* What the request hands out as its sources: the list RAGService.chat
\* returns, the data of the sources event of the stream.
SourcesOut ==
    IF variant = "batch" THEN answer.sources
    ELSE IF EventsOfType({"sources"}) # <<>>
         THEN EventsOfType({"sources"})[1].data ELSE <<>>

SourcesAreOut ==
    IF variant = "batch" THEN pc = "done"
    ELSE pc \in {"sources", "conversation_id", "streaming", "done"}

RetrievedDocs ==
    IF useKb
    THEN Retrieve(documents, question, queryEmbedding, DefaultTopK,
                  DefaultMinRelevance)
    ELSE <<>>

\* id, relevance, title, url and order of the sources, and when the list is
\* empty
SourcesMirror(docs, out) ==
    /\ Len(out) = Len(docs)
    /\ (out = <<>>) <=> (docs = <<>> \/ ~useKb)
    /\ \A i \in 1..Len(out) :
          /\ out[i].bookmark_id = docs[i].id
          /\ out[i].relevance = docs[i].relevance
          /\ out[i].title =
                IF \E it \in docs[i].metadata : it[1] = "title"
                THEN (CHOOSE it \in docs[i].metadata : it[1] = "title")[2]
                ELSE Unnamed
          /\ IF \E it \in docs[i].metadata : it[1] = "url"
             THEN /\ ~out[i].url.none
                  /\ <<"url", out[i].url.str>> \in docs[i].metadata
             ELSE out[i].url.none

\* C26 as stated: the sources list holds one SourceReference per retrieved
\* document, in the same order, with the document's id and relevance, the
\* title and url of its metadata, and as snippet the first 200 characters of
\* its content; it is empty exactly when retrieval returned no document or
\* was skipped.
C26_SnippetIsPrefix ==
    SourcesAreOut =>
        /\ SourcesMirror(RetrievedDocs, SourcesOut)
        /\ \A i \in 1..Len(SourcesOut) :
              /\ ~SourcesOut[i].snippet.none
              /\ SourcesOut[i].snippet.str
                    = SubSeq(RetrievedDocs[i].content, 1,
                             Min(SnippetLen, Len(RetrievedDocs[i].content)))

\* C26, amended: as above, but the snippet is the first 200 characters of
\* the content followed by "...", and a document without content has no
\* snippet; a document whose metadata has no title is titled "unnamed".
C26_SnippetIsPrefixWithEllipsis ==
    SourcesAreOut =>
        /\ SourcesMirror(RetrievedDocs, SourcesOut)
        /\ \A i \in 1..Len(SourcesOut) :
              LET content == RetrievedDocs[i].content
              IN  IF content = <<>> THEN SourcesOut[i].snippet.none
                  ELSE /\ ~SourcesOut[i].snippet.none
                       /\ SourcesOut[i].snippet.str
                             = SubSeq(content, 1, Min(SnippetLen, Len(content)))
                                  \o <<".", ".", ".">>

\* two sources handed out, the first cut from a content longer than a
\* snippet, the second of a document with a url
C26_Witness ==
    /\ SourcesAreOut
    /\ Len(SourcesOut) = 2
    /\ Len(RetrievedDocs[1].content) > SnippetLen
    /\ Len(SourcesOut[1].snippet.str) = SnippetLen + 3
    /\ ~SourcesOut[2].url.none

\* C27: on every client class the payload sent for a generate call carries
\* the content of the system instruction and every user and assistant
\* message of the input list, in order; no client drops the instruction.
SystemCarried(request) ==
    {request.system[i] : i \in 1..Len(request.system)}
        \cup {request.messages[i].content :
                  i \in {k \in 1..Len(request.messages) :
                            request.messages[k].role = "system"}}

Turns(msgs) ==
    LET rest == SelectSeq(msgs, LAMBDA m : m.role # "system")
    IN  [i \in 1..Len(rest) |-> rest[i].content]

C27_RequestCarriesSystemPrompt ==
    \A i \in 1..Len(calls) :
        calls[i].kind = "generate" =>
            /\ calls[i].system \in SystemCarried(calls[i].request)
            /\ Turns(calls[i].request.messages) = Turns(calls[i].messages)

\* C28: after any sequence of create, update and reindex operations, with
\* embedding calls that may fail, every bookmark flagged is_embedded has a
\* document with its id in the vector store whose vector is not empty.
C28_EmbeddedFlagMeansVector ==
    \A id \in Ids :
        (bookmarks[id].state = "active" /\ bookmarks[id].is_embedded
            /\ inflight[id] = NoCall)
        => /\ id \in Keys(documents)
           /\ Get(documents, id).doc.embedding # <<>>

\* C29: once delete_bookmark(id) has completed and no request is in flight
\* any more, the vector store holds no document for id and retrieve does not
\* return it, whatever the interleaving: an indexing call for id that was
\* suspended on its embedding call during the delete does not put the
\* document back.
C29_DeletedStaysDeleted ==
    \A id \in Ids :
        (bookmarks[id].state = "deleted" /\ \A other \in Ids : inflight[other] = NoCall)
        => /\ id \notin Keys(documents)
           /\ \A query \in QueryTexts, qe \in QueryEmbeddings :
                 id \notin ResultIds(Retrieve(documents, query, qe, DefaultTopK,
                                              DefaultMinRelevance))

\* The committed rows hold the whole turn of the request, and nothing else
\* is new: its conversation, created by it or there before, has gained the
\* user message and then the assistant reply.
TurnPersisted(before, after, request) ==
    LET id == IF request.conversation_id.none THEN Len(before) + 1
              ELSE request.conversation_id.str
        had == IF id <= Len(before) THEN before[id].messages ELSE <<>>
    IN  /\ Len(after) = IF request.conversation_id.none THEN Len(before) + 1
                        ELSE Len(before)
        /\ \A i \in 1..Len(before) : i # id => after[i] = before[i]
        /\ Len(after[id].messages) = Len(had) + 2
        /\ SubSeq(after[id].messages, 1, Len(had)) = had
        /\ after[id].messages[Len(had) + 1] =
              [role |-> "user", content |-> request.message]
        /\ after[id].messages[Len(had) + 2].role = "assistant"

\* C30: when a batch chat request has finished, with success or with an
\* exception, the committed conversation store holds either both the new
\* user message and the assistant reply or neither, and in the second case
\* no conversation the request created.
C30_TurnIsAtomic ==
    chatPc \in {"done", "failed"} =>
        \/ conversations = chatRequest.before
        \/ TurnPersisted(chatRequest.before, conversations, chatRequest)

\* a request that created its conversation ended with generation raising,
\* and nothing of it is committed
C30_Witness ==
    /\ chatPc = "failed"
    /\ chatRequest.conversation_id.none
    /\ session = <<>>
    /\ conversations = chatRequest.before
    /\ Len(conversations) = 1

=============================================================================
